---- MODULE Spec2Model ----
(***************************************************************************)
(* A model of treeplot.py: the parser compileTree, the statistics passes   *)
(* Node.update_width / update_height / update_depth and the placement pass *)
(* TreePlotter.plotTree / plotNode.                                        *)
(*                                                                         *)
(* Nodes live in the table `nodes`; a node is named by its index in the    *)
(* table, which is its order of creation.  Python's None is the value None.*)
(***************************************************************************)
EXTENDS Integers, Sequences, FiniteSets, TLC

\* ------------------------------------------------------------- bounds ---
\* Every token sequence of at most ShortLen tokens is an input.
ShortLen == 6
\* Every grammatical input of at most MaxNodes nodes is an input.
MaxNodes == 5
\* plotTree is called at most MaxRuns times on one parsed tree.
MaxRuns == 2

\* ---------------------------------------------------------- constants ---
NODE_RADIUS == 20
NODE_DIST_X == 50
NODE_DIST_Y == 60

None == -1

LParen == "("
RParen == ")"
Parens == {LParen, RParen}
Labels == {"a", "b"}
Tokens == Parens \cup Labels

\* ------------------------------------------------------------- inputs ---
\* The token list T = content.split() after the parentheses were spaced.
ShortSeqs == UNION {[1..n -> Tokens] : n \in 0..ShortLen}

\* The sentences of  T = ( <label> T* )  with n nodes, and the sequences of
\* such sentences with n nodes in all.
RECURSIVE TreeTok(_), ForestTok(_)
TreeTok(n) ==
  {<<LParen, l>> \o f \o <<RParen>> : l \in Labels, f \in ForestTok(n - 1)}
ForestTok(n) ==
  IF n = 0 THEN {<<>>}
  ELSE UNION {{t \o f : t \in TreeTok(k), f \in ForestTok(n - k)} : k \in 1..n}

GrammarSeqs == UNION {TreeTok(n) : n \in 1..MaxNodes}

Inputs == ShortSeqs \cup GrammarSeqs

\* -------------------------------------------------------------- state ---
VARIABLES
  T,            \* the token list
  pc,           \* position in the program
  outcome,      \* how compileTree ended: "returned", a parse error, an exception
  exit_status,  \* the argument of sys.exit, None while running
  err_index,    \* the index printed with "unexpected symbol"
  nodes,        \* the Node objects, in order of creation
  root,         \* compileTree's root
  last,         \* compileTree's insertion node
  depth,        \* compileTree's count of open parentheses
  state,        \* compileTree's state
  i,            \* enumerate index of the next token of T[2:]
  indent,       \* TreePlotter.indent
  plot,         \* the elements added to TreePlotter.plot
  stack,        \* plotTree's stack
  visited,      \* history: the nodes plotNode was called on in this plotTree
  entry,        \* history: indent at the call of plotNode, per node
  first_pos,    \* history: <<pos_x, pos_y>> per node after the first plotTree
  runs,         \* history: calls of plotTree on this tree
  plotter_runs  \* history: finished calls of plotTree on this plotter

parse_vars == <<T, outcome, exit_status, err_index, root, last, depth, state, i>>
plot_vars == <<indent, plot, stack, visited, entry, first_pos, runs, plotter_runs>>
vars == <<T, pc, outcome, exit_status, err_index, nodes, root, last, depth,
          state, i, indent, plot, stack, visited, entry, first_pos, runs,
          plotter_runs>>

\* --------------------------------------------------------------- Node ---
Node(l) ==
  [label |-> l, children |-> <<>>, parent |-> None, width |-> 1,
   height |-> None, depth |-> None, pos_x |-> None, pos_y |-> None]

add_child_prepend(ns, self, child) ==
  [ns EXCEPT ![self].children = <<child>> \o @, ![child].parent = self]

add_child(ns, self, child) ==
  [ns EXCEPT ![self].children = Append(@, child), ![child].parent = self]

RECURSIVE SumWidth(_, _, _)
SumWidth(ns, ch, k) ==
  IF k > Len(ch) THEN 0 ELSE ns[ch[k]].width + SumWidth(ns, ch, k + 1)

RECURSIVE MaxHeight(_, _, _)
MaxHeight(ns, ch, k) ==
  IF k = Len(ch) THEN ns[ch[k]].height
  ELSE LET h == ns[ch[k]].height
           m == MaxHeight(ns, ch, k + 1)
       IN IF h >= m THEN h ELSE m

\* The value update_width stores in a node with children, the children done.
inner_width_counting_self(ns, ch) == 1 + SumWidth(ns, ch, 1)

inner_width(ns, ch) == SumWidth(ns, ch, 1)

\* The value update_height stores in a node with children, the children done.
inner_height_of_last(ns, ch) == 1 + ns[ch[Len(ch)]].height

inner_height(ns, ch) == 1 + MaxHeight(ns, ch, 1)

\* The value update_depth stores in a node.
own_depth_of_parent(parent_depth) == parent_depth

own_depth(parent_depth) == parent_depth + 1

RECURSIVE update_width(_, _), update_width_children(_, _, _)
update_width_children(ns, ch, k) ==
  IF k > Len(ch) THEN ns
  ELSE update_width_children(update_width(ns, ch[k]), ch, k + 1)
update_width(ns, self) ==
  IF Len(ns[self].children) = 0
  THEN [ns EXCEPT ![self].width = 1]
  ELSE LET done == update_width_children(ns, ns[self].children, 1)
       IN [done EXCEPT ![self].width = inner_width(done, ns[self].children)]

RECURSIVE update_height(_, _), update_height_children(_, _, _)
update_height_children(ns, ch, k) ==
  IF k > Len(ch) THEN ns
  ELSE update_height_children(update_height(ns, ch[k]), ch, k + 1)
update_height(ns, self) ==
  IF Len(ns[self].children) = 0
  THEN [ns EXCEPT ![self].height = 1]
  ELSE LET done == update_height_children(ns, ns[self].children, 1)
       IN [done EXCEPT ![self].height = inner_height(done, ns[self].children)]

RECURSIVE update_depth(_, _, _), update_depth_children(_, _, _, _)
update_depth_children(ns, ch, d, k) ==
  IF k > Len(ch) THEN ns
  ELSE update_depth_children(update_depth(ns, ch[k], d), ch, d, k + 1)
update_depth(ns, self, parent_depth) ==
  LET set == [ns EXCEPT ![self].depth = own_depth(parent_depth)]
  IN update_depth_children(set, set[self].children, set[self].depth, 1)

\* -------------------------------------------------------- compileTree ---
Init ==
  /\ T \in Inputs
  /\ pc = "compileTree"
  /\ outcome = "running"
  /\ exit_status = None
  /\ err_index = None
  /\ nodes = <<>>
  /\ root = None
  /\ last = None
  /\ depth = None
  /\ state = None
  /\ i = None
  /\ indent = None
  /\ plot = <<>>
  /\ stack = <<>>
  /\ visited = <<>>
  /\ entry = <<>>
  /\ first_pos = <<>>
  /\ runs = 0
  /\ plotter_runs = 0

\* sys.exit(1) after a parsing error was printed.
ParseError(kind) ==
  /\ pc' = "exit"
  /\ outcome' = kind
  /\ exit_status' = 1

\* An exception nothing catches.
Raise(kind) ==
  /\ pc' = "exit"
  /\ outcome' = kind
  /\ exit_status' = exit_status

\* T[0] of an empty list.
FirstTokenOfEmpty ==
  /\ pc = "compileTree"
  /\ Len(T) = 0
  /\ Raise("IndexError")
  /\ UNCHANGED <<T, err_index, nodes, root, last, depth, state, i>>
  /\ UNCHANGED plot_vars

MissingOpeningParen ==
  /\ pc = "compileTree"
  /\ Len(T) > 0
  /\ T[1] # LParen
  /\ ParseError("MissingOpeningParen")
  /\ UNCHANGED <<T, err_index, nodes, root, last, depth, state, i>>
  /\ UNCHANGED plot_vars

TooShort ==
  /\ pc = "compileTree"
  /\ Len(T) > 0
  /\ T[1] = LParen
  /\ Len(T) < 3
  /\ ParseError("TooShort")
  /\ UNCHANGED <<T, err_index, nodes, root, last, depth, state, i>>
  /\ UNCHANGED plot_vars

CreateRoot ==
  /\ pc = "compileTree"
  /\ Len(T) > 0
  /\ T[1] = LParen
  /\ Len(T) >= 3
  /\ nodes' = <<Node(T[2])>>
  /\ root' = 1
  /\ last' = 1
  /\ depth' = 1
  /\ state' = 1
  /\ i' = 0
  /\ pc' = "loop"
  /\ UNCHANGED <<T, outcome, exit_status, err_index>>
  /\ UNCHANGED plot_vars

\* The token t of  for i, t in enumerate(T[2:]).
MoreTokens == i + 2 < Len(T)
t == T[i + 3]

LoopClose ==
  /\ pc = "loop"
  /\ MoreTokens
  /\ t = RParen /\ (state = 1 \/ state = 2)
  /\ depth' = depth - 1
  /\ IF last = None
     THEN /\ Raise("AttributeError")
          /\ UNCHANGED <<last, state, i>>
     ELSE /\ last' = nodes[last].parent
          /\ state' = 2
          /\ i' = i + 1
          /\ UNCHANGED <<pc, outcome, exit_status>>
  /\ UNCHANGED <<T, err_index, nodes, root>>
  /\ UNCHANGED plot_vars

LoopOpen ==
  /\ pc = "loop"
  /\ MoreTokens
  /\ ~(t = RParen /\ (state = 1 \/ state = 2))
  /\ t = LParen /\ (state = 1 \/ state = 2)
  /\ depth' = depth + 1
  /\ state' = 0
  /\ i' = i + 1
  /\ UNCHANGED <<T, pc, outcome, exit_status, err_index, nodes, root, last>>
  /\ UNCHANGED plot_vars

LoopLabel ==
  /\ pc = "loop"
  /\ MoreTokens
  /\ ~(t = RParen /\ (state = 1 \/ state = 2))
  /\ ~(t = LParen /\ (state = 1 \/ state = 2))
  /\ state = 0
  /\ LET created == Append(nodes, Node(t))
         node == Len(created)
     IN IF last = None
        THEN /\ nodes' = created
             /\ Raise("AttributeError")
             /\ UNCHANGED <<last, state, i>>
        ELSE /\ nodes' = add_child(created, last, node)
             /\ last' = node
             /\ state' = 1
             /\ i' = i + 1
             /\ UNCHANGED <<pc, outcome, exit_status>>
  /\ UNCHANGED <<T, err_index, root, depth>>
  /\ UNCHANGED plot_vars

LoopUnexpected ==
  /\ pc = "loop"
  /\ MoreTokens
  /\ ~(t = RParen /\ (state = 1 \/ state = 2))
  /\ ~(t = LParen /\ (state = 1 \/ state = 2))
  /\ state # 0
  /\ err_index' = i + 2
  /\ ParseError("UnexpectedToken")
  /\ UNCHANGED <<T, nodes, root, last, depth, state, i>>
  /\ UNCHANGED plot_vars

BracketMismatch ==
  /\ pc = "loop"
  /\ ~MoreTokens
  /\ depth # 0
  /\ ParseError("BracketMismatch")
  /\ UNCHANGED <<T, err_index, nodes, root, last, depth, state, i>>
  /\ UNCHANGED plot_vars

CallUpdateWidth ==
  /\ pc = "loop"
  /\ ~MoreTokens
  /\ depth = 0
  /\ nodes' = update_width(nodes, root)
  /\ pc' = "update_height"
  /\ UNCHANGED parse_vars
  /\ UNCHANGED plot_vars

CallUpdateHeight ==
  /\ pc = "update_height"
  /\ nodes' = update_height(nodes, root)
  /\ pc' = "update_depth"
  /\ UNCHANGED parse_vars
  /\ UNCHANGED plot_vars

DefaultParentDepth == -1

CallUpdateDepth ==
  /\ pc = "update_depth"
  /\ nodes' = update_depth(nodes, root, DefaultParentDepth)
  /\ pc' = "return"
  /\ UNCHANGED parse_vars
  /\ UNCHANGED plot_vars

Return ==
  /\ pc = "return"
  /\ outcome' = "returned"
  /\ pc' = "plot"
  /\ UNCHANGED <<T, exit_status, err_index, nodes, root, last, depth, state, i>>
  /\ UNCHANGED plot_vars

\* -------------------------------------------------------- TreePlotter ---
\* x * 0.5 for the even x it is applied to (NODE_DIST_Y, width * NODE_DIST_X).
Half(x) == x \div 2

plotNode_pos_y(d) == d * NODE_DIST_Y + Half(NODE_DIST_Y)

plotNode_pos_x_whole_width(ind, width) == ind * NODE_DIST_X + width * NODE_DIST_X

plotNode_pos_x(ind, width) == ind * NODE_DIST_X + Half(width * NODE_DIST_X)

\* The elements plotNode adds to the plot.
Circle(x, y, r) ==
  [kind |-> "circle", x1 |-> x, y1 |-> y, x2 |-> None, y2 |-> None,
   r |-> r, label |-> ""]
Text(l, x, y) ==
  [kind |-> "text", x1 |-> x, y1 |-> y, x2 |-> None, y2 |-> None,
   r |-> None, label |-> l]
Line(x1, y1, x2, y2) ==
  [kind |-> "line", x1 |-> x1, y1 |-> y1, x2 |-> x2, y2 |-> y2,
   r |-> None, label |-> ""]

\* plotNode's effect on the node table: the position of `node`.
plotNode_nodes(ns, node, ind) ==
  [ns EXCEPT ![node].pos_x = plotNode_pos_x(ind, ns[node].width),
             ![node].pos_y = plotNode_pos_y(ns[node].depth)]

\* plotNode's effect on the plot; ns is the table with the position stored.
plotNode_plot(ns, p, node) ==
  LET pos_x == ns[node].pos_x
      pos_y == ns[node].pos_y
      par == ns[node].parent
      drawn == p \o <<Circle(pos_x, pos_y, NODE_RADIUS),
                      Text(ns[node].label, pos_x, pos_y)>>
  IN IF par # None
     THEN Append(drawn, Line(ns[par].pos_x, ns[par].pos_y + NODE_RADIUS,
                             pos_x, pos_y - NODE_RADIUS))
     ELSE drawn

RECURSIVE Reverse(_)
Reverse(s) == IF s = <<>> THEN <<>> ELSE Append(Reverse(Tail(s)), Head(s))

\* The stack after  node = stack.pop(); stack.extend(node.children[::-1]).
pop_extend_twice(stk, children) ==
  SubSeq(stk, 1, Len(stk) - 1) \o Reverse(children) \o Reverse(children)

pop_extend_in_order(stk, children) ==
  SubSeq(stk, 1, Len(stk) - 1) \o children

pop_extend(stk, children) ==
  SubSeq(stk, 1, Len(stk) - 1) \o Reverse(children)

\* indent after  if len(node.children) == 0: self.indent += 1.
next_indent_stuck(ind, children) == ind

next_indent(ind, children) == IF Len(children) = 0 THEN ind + 1 ELSE ind

\* plotter = TreePlotter(): in plot() after compileTree, or once more for
\* another pass over the same tree.
NewTreePlotter ==
  /\ \/ pc = "plot"
     \/ pc = "ready" /\ plotter_runs > 0 /\ runs < MaxRuns
  /\ indent' = 0
  /\ plot' = <<>>
  /\ plotter_runs' = 0
  /\ pc' = "ready"
  /\ UNCHANGED parse_vars
  /\ UNCHANGED <<nodes, stack, visited, entry, first_pos, runs>>

plotTree_begin ==
  /\ pc = "ready"
  /\ runs < MaxRuns
  /\ stack' = <<root>>
  /\ visited' = <<>>
  /\ entry' = [n \in 1..Len(nodes) |-> None]
  /\ runs' = runs + 1
  /\ pc' = "plotTree"
  /\ UNCHANGED parse_vars
  /\ UNCHANGED <<nodes, indent, plot, first_pos, plotter_runs>>

plotTree_iterate ==
  /\ pc = "plotTree"
  /\ Len(stack) # 0
  /\ LET node == stack[Len(stack)]
         placed == plotNode_nodes(nodes, node, indent)
     IN /\ stack' = pop_extend(stack, nodes[node].children)
        /\ nodes' = placed
        /\ plot' = plotNode_plot(placed, plot, node)
        /\ indent' = next_indent(indent, nodes[node].children)
        /\ visited' = Append(visited, node)
        /\ entry' = [entry EXCEPT ![node] = indent]
  /\ UNCHANGED parse_vars
  /\ UNCHANGED <<pc, first_pos, runs, plotter_runs>>

plotTree_end ==
  /\ pc = "plotTree"
  /\ Len(stack) = 0
  /\ pc' = "ready"
  /\ plotter_runs' = plotter_runs + 1
  /\ first_pos' = IF runs = 1
                  THEN [n \in 1..Len(nodes) |-> <<nodes[n].pos_x, nodes[n].pos_y>>]
                  ELSE first_pos
  /\ UNCHANGED parse_vars
  /\ UNCHANGED <<nodes, indent, plot, stack, visited, entry, runs>>

Next ==
  \/ FirstTokenOfEmpty
  \/ MissingOpeningParen
  \/ TooShort
  \/ CreateRoot
  \/ LoopClose
  \/ LoopOpen
  \/ LoopLabel
  \/ LoopUnexpected
  \/ BracketMismatch
  \/ CallUpdateWidth
  \/ CallUpdateHeight
  \/ CallUpdateDepth
  \/ Return
  \/ NewTreePlotter
  \/ plotTree_begin
  \/ plotTree_iterate
  \/ plotTree_end

Spec == Init /\ [][Next]_vars

\* ------------------------------------------- vocabulary of the claims ---
NodeIds == 1..Len(nodes)
IsLeaf(n) == Len(nodes[n].children) = 0

\* compileTree has ended, one way or another.
Ended == pc \in {"exit", "plot", "ready", "plotTree"}
FourParseErrors ==
  {"MissingOpeningParen", "TooShort", "UnexpectedToken", "BracketMismatch"}

\* One plotTree on a fresh plotter is running / has just finished.
FreshRunning == pc = "plotTree" /\ plotter_runs = 0
FreshRunDone == pc = "ready" /\ plotter_runs = 1

\* a is a proper ancestor of b, by the parent links.
RECURSIVE IsAncestor(_, _)
IsAncestor(a, b) ==
  /\ nodes[b].parent # None
  /\ \/ nodes[b].parent = a
     \/ IsAncestor(a, nodes[b].parent)
Unrelated(a, b) == a # b /\ ~IsAncestor(a, b) /\ ~IsAncestor(b, a)

\* Levels above n, by the parent links.
RECURSIVE LevelOf(_)
LevelOf(n) == IF nodes[n].parent = None THEN 0 ELSE 1 + LevelOf(nodes[n].parent)

\* The nodes of the subtree of n in left-to-right pre-order, by the children lists.
RECURSIVE PreOrder(_), PreOrderAll(_, _)
PreOrderAll(ch, k) ==
  IF k > Len(ch) THEN <<>> ELSE PreOrder(ch[k]) \o PreOrderAll(ch, k + 1)
PreOrder(n) == <<n>> \o PreOrderAll(nodes[n].children, 1)

\* The leaves of the subtree of n, left to right.
LeavesOf(n) == SelectSeq(PreOrder(n), IsLeaf)

\* The place of n in the pre-order of the whole tree.
PlaceOf(n) == CHOOSE k \in 1..Len(PreOrder(root)) : PreOrder(root)[k] = n

IsPrefix(s, u) == Len(s) <= Len(u) /\ s = SubSeq(u, 1, Len(s))

\* Opening minus closing parentheses among the first k tokens of s.
Bal(s, k) ==
  Cardinality({m \in 1..k : s[m] = LParen})
    - Cardinality({m \in 1..k : s[m] = RParen})

\* s is a sentence of  Tree := '(' Label Tree* ')'  with no parenthesis as Label.
InGrammar(s) ==
  /\ Len(s) >= 3
  /\ s[1] = LParen
  /\ \A k \in 1..Len(s) : s[k] = LParen => k < Len(s) /\ s[k + 1] \notin Parens
  /\ \A k \in 1..Len(s) : s[k] \notin Parens => k > 1 /\ s[k - 1] = LParen
  /\ \A k \in 1..(Len(s) - 1) : Bal(s, k) > 0
  /\ Bal(s, Len(s)) = 0

\* For a sentence s: the groups, numbered in order of their '(' ; the position
\* of the '(' of each; for each the group that encloses it directly (0 for
\* the first), which is the latest earlier group still open at its '('.
Groups(s) == 1..Cardinality({k \in 1..Len(s) : s[k] = LParen})
OpenAt(s) ==
  [j \in Groups(s) |->
     CHOOSE k \in 1..Len(s) :
       s[k] = LParen /\ Cardinality({m \in 1..k : s[m] = LParen}) = j]
EnclosingGroup(s) ==
  LET open == OpenAt(s)
      bal == [k \in 1..Len(s) |-> Bal(s, k)]
      StillOpen(q, j) == \A m \in open[q]..(open[j] - 1) : bal[m] >= bal[open[q]]
  IN [j \in Groups(s) |->
        IF j = 1 THEN 0
        ELSE CHOOSE q \in 1..(j - 1) :
               StillOpen(q, j) /\ \A q2 \in (q + 1)..(j - 1) : ~StillOpen(q2, j)]
RECURSIVE Ascending(_, _)
Ascending(S, from) ==
  IF \A x \in S : x < from THEN <<>>
  ELSE LET x == CHOOSE y \in S : y >= from /\ \A z \in S : z >= from => y <= z
       IN <<x>> \o Ascending(S, x + 1)

\* ------------------------------------------------------------- claims ---

\* C1: after one plotTree on a fresh plotter, any two nodes of which neither
\* is an ancestor of the other have disjoint leaf-slot intervals
\* [entry, entry + width), entry being indent when plotNode was called.
C1_IntervalsDisjoint ==
  FreshRunDone =>
    \A a, b \in NodeIds :
      /\ entry[a] # None
      /\ Unrelated(a, b) =>
           \/ entry[a] + nodes[a].width <= entry[b]
           \/ entry[b] + nodes[b].width <= entry[a]
C1_Witness ==
  /\ FreshRunDone
  /\ \E a, b \in NodeIds :
       Unrelated(a, b) /\ ~IsLeaf(a) /\ entry[a] + nodes[a].width = entry[b]

\* C2: compileTree returns a tree only for sentences of the grammar whose
\* labels are no parentheses; every other token sequence ends in a parse error.
C2_ReturnsOnlyGrammar == outcome = "returned" => InGrammar(T)

\* C3: for every token sequence compileTree either returns the root or leaves
\* through one of its four parse-error exits with status 1; nothing else.
C3_ReturnsOrParseError ==
  Ended =>
    \/ outcome = "returned" /\ root # None
    \/ outcome \in FourParseErrors /\ exit_status = 1

\* C4: a second plotTree on the same tree, on the plotter that already ran or
\* on a new one, gives every node the pos_x and pos_y of the first.
C4_SecondRunSamePositions ==
  (pc = "ready" /\ runs >= 2) =>
    \A n \in NodeIds : <<nodes[n].pos_x, nodes[n].pos_y>> = first_pos[n]

\* C5: for a sentence of the grammar the returned tree has the shape of the
\* input: one node per group in order of appearance, carrying the group's
\* label, its parent the node of the enclosing group (none for the root), its
\* children the directly enclosed groups in input order; and a parent link,
\* once set, never changes.
C5_ShapeOfInput ==
  /\ (Ended /\ InGrammar(T)) => outcome = "returned"
  /\ (pc = "plot" /\ InGrammar(T)) =>
       LET open == OpenAt(T)
           enclosing == EnclosingGroup(T)
       IN /\ root = 1
          /\ NodeIds = Groups(T)
          /\ \A j \in NodeIds :
               /\ nodes[j].label = T[open[j] + 1]
               /\ nodes[j].parent = (IF j = 1 THEN None ELSE enclosing[j])
               /\ nodes[j].children =
                    Ascending({c \in Groups(T) : enclosing[c] = j}, 1)
C5_ParentKept ==
  \A j \in NodeIds : nodes[j].parent # None => nodes'[j].parent = nodes[j].parent
C5_Shape == [](C5_ShapeOfInput) /\ [][C5_ParentKept]_vars
C5_Witness ==
  /\ pc = "plot" /\ InGrammar(T)
  /\ \E j \in NodeIds : Len(nodes[j].children) >= 2 /\ nodes[j].parent # None

\* C6: when compileTree has returned every node satisfies the recurrences of
\* width, depth and height, the root's width is the number of leaves, and no
\* node has a position before all three are set on every node.
StatisticsHold ==
  /\ \A n \in NodeIds :
       /\ nodes[n].width =
            (IF IsLeaf(n) THEN 1 ELSE SumWidth(nodes, nodes[n].children, 1))
       /\ nodes[n].height =
            (IF IsLeaf(n) THEN 1 ELSE 1 + MaxHeight(nodes, nodes[n].children, 1))
       /\ nodes[n].depth =
            (IF n = root THEN 0 ELSE nodes[nodes[n].parent].depth + 1)
  /\ nodes[root].width = Cardinality({n \in NodeIds : IsLeaf(n)})
C6_Statistics ==
  (outcome = "returned"
     \/ \E n \in NodeIds : nodes[n].pos_x # None \/ nodes[n].pos_y # None)
    => StatisticsHold
C6_Witness ==
  /\ outcome = "returned"
  /\ nodes[root].height >= 3
  /\ \E n \in NodeIds :
       /\ Len(nodes[n].children) >= 2
       /\ nodes[nodes[n].children[1]].height > nodes[nodes[n].children[2]].height

MaxChildren ==
  CHOOSE b \in 0..Len(nodes) :
    /\ \A n \in NodeIds : Len(nodes[n].children) <= b
    /\ \E n \in NodeIds : Len(nodes[n].children) = b
RECURSIVE ExpectedPlot(_, _)
ExpectedPlot(order, k) ==
  IF k > Len(order) THEN <<>>
  ELSE LET n == nodes[order[k]]
           own == <<[kind |-> "circle", x1 |-> n.pos_x, y1 |-> n.pos_y,
                     x2 |-> None, y2 |-> None, r |-> NODE_RADIUS, label |-> ""],
                    [kind |-> "text", x1 |-> n.pos_x, y1 |-> n.pos_y,
                     x2 |-> None, y2 |-> None, r |-> None, label |-> n.label]>>
           edge == IF n.parent = None THEN <<>>
                   ELSE <<[kind |-> "line", x1 |-> nodes[n.parent].pos_x,
                           y1 |-> nodes[n.parent].pos_y + NODE_RADIUS,
                           x2 |-> n.pos_x, y2 |-> n.pos_y - NODE_RADIUS,
                           r |-> None, label |-> ""]>>
       IN own \o edge \o ExpectedPlot(order, k + 1)
CountKind(kind) == Cardinality({k \in 1..Len(plot) : plot[k].kind = kind})
C8_PreOrderOnce ==
  /\ FreshRunning => IsPrefix(visited, PreOrder(root))
  /\ FreshRunDone =>
       /\ visited = PreOrder(root)
       /\ Len(visited) = Len(nodes)
       /\ plot = ExpectedPlot(visited, 1)
       /\ CountKind("circle") = Len(nodes)
       /\ CountKind("text") = Len(nodes)
       /\ CountKind("line") = Len(nodes) - 1
C8_AssignedOnce ==
  \A n \in NodeIds :
    (runs' = 1 /\ nodes[n].pos_x # None) =>
      /\ nodes'[n].pos_x = nodes[n].pos_x
      /\ nodes'[n].pos_y = nodes[n].pos_y
C8_Traversal ==
  /\ [](C8_PreOrderOnce)
  /\ [][C8_AssignedOnce]_vars
  /\ (FreshRunning ~> FreshRunDone)
C8_Witness ==
  /\ FreshRunDone
  /\ Len(nodes) >= 4
  /\ \E n \in NodeIds : Len(nodes[n].children) >= 2 /\ ~IsLeaf(nodes[n].children[1])

\* C9: after plotTree on a fresh plotter an internal node's pos_x is the
\* midpoint of the pos_x of the leftmost and rightmost leaf of its subtree, the
\* k-th leaf (from 0) has pos_x = k * NODE_DIST_X + NODE_DIST_X / 2, and every
\* node has pos_y = depth * NODE_DIST_Y + NODE_DIST_Y / 2.
C9_Positions ==
  FreshRunDone =>
    /\ \A n \in NodeIds :
         /\ ~IsLeaf(n) =>
              2 * nodes[n].pos_x =
                nodes[LeavesOf(n)[1]].pos_x
                  + nodes[LeavesOf(n)[Len(LeavesOf(n))]].pos_x
         /\ nodes[n].pos_y = LevelOf(n) * NODE_DIST_Y + NODE_DIST_Y \div 2
    /\ \A k \in 1..Len(LeavesOf(root)) :
         nodes[LeavesOf(root)[k]].pos_x =
           (k - 1) * NODE_DIST_X + NODE_DIST_X \div 2
C9_Witness ==
  /\ FreshRunDone
  /\ \E n \in NodeIds :
       /\ n # root
       /\ Len(LeavesOf(n)) >= 2
       /\ entry[n] >= 1

\* C10: after plotTree on a fresh plotter, of two nodes at the same depth the
\* later one in left-to-right order lies at least NODE_DIST_X to the right,
\* and NODE_DIST_X exceeds the diameter 2 * NODE_RADIUS.
C10_LevelSpacing ==
  /\ NODE_DIST_X > 2 * NODE_RADIUS
  /\ FreshRunDone =>
       \A a, b \in NodeIds :
         (LevelOf(a) = LevelOf(b) /\ PlaceOf(a) < PlaceOf(b)) =>
           nodes[b].pos_x - nodes[a].pos_x >= NODE_DIST_X
C10_Witness ==
  /\ FreshRunDone
  /\ \E a, b \in NodeIds :
       /\ LevelOf(a) = LevelOf(b)
       /\ PlaceOf(a) < PlaceOf(b)
       /\ nodes[a].parent # nodes[b].parent
       /\ nodes[b].pos_x - nodes[a].pos_x = NODE_DIST_X

\* The specification under which the traversal's termination is checked: the
\* program is sequential and always takes its next step.
FairSpec == Spec /\ WF_vars(Next)

====
